---------------------------- MODULE Spec2Model ----------------------------
(***************************************************************************)
(* Model of the two MAX-SAT engines of max-k-sat: the evolutionary         *)
(* algorithm of ea.py (class EA) and the weighted particle swarm with      *)
(* local search of pso.py (class PSO, run_WPSOSAT).                        *)
(*                                                                         *)
(* Python lists are objects: a name holds a reference, and an assignment   *)
(* through one name is seen through every other name of the same list.     *)
(* Both engines are modelled with an explicit store of list objects        *)
(* (solutions for EA, position for PSO) and with references into it.       *)
(***************************************************************************)
EXTENDS Integers, Sequences, FiniteSets, TLC

(***************************************************************************)
(* Bounds of the model.  The engine parameters are attributes set by the   *)
(* constructors (ea.py:16-21) or command-line arguments (pso.py:281-286);  *)
(* they are scaled down here.                                              *)
(***************************************************************************)
MaxGenerationSize == 3
MaxStoreBits == 4
max_iterations == 1
MaxParticles == 2
max_iteration == 2
MaxFlip == 3
MaxLit == 3

\* sorted_chromos[:10] in EA.selection
SelectionSlice == 10

\* PSO's factors as main passes them by default: w, and c1, c2 in tenths
w == 1
c1 == 17
c2 == 21

\* float("-inf"), below every fitness
NegInf == -1

\* the values of random() explored, in tenths
RandomTenths == {0, 5}

\* outcome of a list index outside the list (Python raises IndexError)
IndexError == -1

\* Python's None where a reference to a list object is expected
None == 0

Bit == {0, 1}

Assignments(n) == [1..n -> Bit]

(***************************************************************************)
(* The problems the engines are run on: clauses and literal count, as the  *)
(* file readers return them.                                               *)
(***************************************************************************)
UnsatExample == << <<1, 2>>, <<-1, 2>>, <<1, -2>>, <<-1, -2>> >>

Problems ==
    { [clauses |-> UnsatExample, num_literals |-> 2],
      [clauses |-> << <<1>>, <<2>> >>, num_literals |-> 2],
      [clauses |-> << <<1>> >>, num_literals |-> 1],
      [clauses |-> << >>, num_literals |-> 1] }

(***************************************************************************)
(* Clause evaluation (identical in EA and PSO).                            *)
(***************************************************************************)
\* valuation_list[idx] with 0-based idx; a negative idx counts from the end
PyIndex(valuation_list, idx) ==
    LET n == Len(valuation_list) IN
    IF idx >= 0 /\ idx < n THEN valuation_list[idx + 1]
    ELSE IF idx < 0 /\ idx >= -n THEN valuation_list[n + idx + 1]
    ELSE IndexError

\* is_clause_satisfied with the negation of a negative literal left out
RECURSIVE is_clause_satisfied_unsigned(_, _)
is_clause_satisfied_unsigned(valuation_list, clause) ==
    IF clause = << >> THEN 0
    ELSE LET literal == Head(clause)
             x == IF literal < 0 THEN PyIndex(valuation_list, -literal - 1)
                  ELSE PyIndex(valuation_list, literal - 1)
         IN IF x = IndexError THEN IndexError
            ELSE IF x = 1 THEN 1
            ELSE is_clause_satisfied_unsigned(valuation_list, Tail(clause))

\* 1 (True), 0 (False) or IndexError
RECURSIVE is_clause_satisfied(_, _)
is_clause_satisfied(valuation_list, clause) ==
    IF clause = << >> THEN 0
    ELSE LET literal == Head(clause)
             x == IF literal < 0 THEN PyIndex(valuation_list, -literal - 1)
                  ELSE PyIndex(valuation_list, literal - 1)
             v == IF literal < 0 THEN 1 - x ELSE x
         IN IF x = IndexError THEN IndexError
            ELSE IF v = 1 THEN 1
            ELSE is_clause_satisfied(valuation_list, Tail(clause))

\* EA.fitness without its call of goal_function: the number of true clauses
RECURSIVE ea_fitness(_, _)
ea_fitness(valuation, cls) ==
    IF cls = << >> THEN 0
    ELSE LET s == is_clause_satisfied(valuation, Head(cls))
             r == ea_fitness(valuation, Tail(cls))
         IN IF s = IndexError \/ r = IndexError THEN IndexError ELSE s + r

\* PSO.fitness: the weighted number of true clauses
RECURSIVE pso_fitness(_, _, _)
pso_fitness(valuation, cls, ws) ==
    IF cls = << >> THEN 0
    ELSE LET s == is_clause_satisfied(valuation, Head(cls))
             r == pso_fitness(valuation, Tail(cls), Tail(ws))
         IN IF s = IndexError \/ r = IndexError THEN IndexError
            ELSE Head(ws) * s + r

\* PSO.num_satisfied_clauses
num_satisfied_clauses_of(val_list, cls) == ea_fitness(val_list, cls)

VARIABLES
    clauses,            \* self.clauses (without the weights)
    num_literals,       \* self.num_literals
    generation_size,    \* EA: self.generation_size
    num_particles,      \* PSO: self.num_particles
    max_flip,           \* run_WPSOSAT's argument max_flip
    \* ---- EA ----
    solutions,          \* the list objects created by initial_population
    chromosomes,        \* run's population: Chromosome(solution ref, fitness)
    for_reproduction,   \* the pool selection returned
    new_generation,     \* create_generation's list under construction
    current_iteration,  \* self.current_iteration
    top_chromosome,     \* self.top_chromosome: a list reference or None
    ea_pc,              \* position in EA.run
    ea_result,          \* what EA.run returned
    \* ---- PSO ----
    position,           \* the list objects particle.position, by particle
    best,               \* particle.best: a reference to a position list
    velocity,           \* particle.velocity, in hundredths
    p_fitness,          \* particle.fitness
    weights,            \* clause['w'], by clause
    global_best,        \* self.global_best: a reference to a position list
    global_best_fitness,    \* self.global_best_fitness
    iteration,          \* run_WPSOSAT's local iteration
    num_satisfied_clauses,  \* run_WPSOSAT's local num_satisfied_clauses
    particle,           \* the particle of run_WPSOSAT's for loop
    pso_pc,             \* position in run_WPSOSAT
    \* ---- single operations ----
    op_pc,              \* which operation is applied, and whether it was
    op_clauses,         \* the clauses an evaluation is applied to
    op_weights,         \* their weights (PSO)
    op_lists,           \* the list objects the operation is applied to
    op_draws,           \* crossover's draws "p < crossover_p", by position
    op_before,          \* the list objects as they were before the operation
    op_result           \* the value the operation returned

cfg_vars == << clauses, num_literals, generation_size, num_particles, max_flip >>

pso_vars == << position, best, velocity, p_fitness, weights, global_best,
               global_best_fitness, iteration, num_satisfied_clauses, particle,
               pso_pc >>

op_vars == << op_pc, op_clauses, op_weights, op_lists, op_draws, op_before,
              op_result >>

ea_vars == << solutions, chromosomes, for_reproduction, new_generation,
              current_iteration, top_chromosome, ea_pc, ea_result >>

num_clauses == Len(clauses)

Chromosome(solution, fit) == [solution |-> solution, fitness |-> fit]

\* EA.goal_function: the value of top_chromosome after the call
goal_function(fit, chromosome, top) ==
    IF fit = num_clauses THEN chromosome ELSE top


(***************************************************************************)
(* EA.initial_population: fitness is evaluated solution by solution, and   *)
(* each evaluation calls goal_function.                                    *)
(***************************************************************************)
RECURSIVE TopAfter(_, _, _)
TopAfter(sols, k, top) ==
    IF k > generation_size THEN top
    ELSE TopAfter(sols, k + 1, goal_function(ea_fitness(sols[k], clauses), k, top))

initial_population ==
    /\ ea_pc = "start"
    /\ \E sols \in [1..generation_size -> Assignments(num_literals)] :
          /\ solutions' = sols
          /\ chromosomes' = [k \in 1..generation_size |->
                                Chromosome(k, ea_fitness(sols[k], clauses))]
          /\ top_chromosome' = TopAfter(sols, 1, top_chromosome)
    /\ ea_pc' = "loop"
    /\ UNCHANGED << for_reproduction, new_generation, current_iteration,
                    ea_result, cfg_vars, pso_vars, op_vars >>

stop_condition ==
    current_iteration > max_iterations \/ top_chromosome # None

\* sorted(chromosomes, key = fitness): stable, ascending
RECURSIVE Insert(_, _)
Insert(c, t) ==
    IF t = << >> THEN << c >>
    ELSE IF Head(t).fitness <= c.fitness THEN << Head(t) >> \o Insert(c, Tail(t))
    ELSE << c >> \o t

RECURSIVE sorted(_)
sorted(s) ==
    IF s = << >> THEN << >>
    ELSE Insert(s[Len(s)], sorted(SubSeq(s, 1, Len(s) - 1)))

selection(chromos) ==
    LET sorted_chromos == sorted(chromos)
    IN SubSeq(sorted_chromos, 1,
              IF Len(sorted_chromos) < SelectionSlice THEN Len(sorted_chromos)
              ELSE SelectionSlice)

\* one turn of run's while loop up to the call of create_generation
Select ==
    /\ ea_pc = "loop"
    /\ ~stop_condition
    /\ for_reproduction' = selection(chromosomes)
    /\ new_generation' = << >>
    /\ ea_pc' = "create"
    /\ UNCHANGED << solutions, chromosomes, current_iteration, top_chromosome,
                    ea_result, cfg_vars, pso_vars, op_vars >>

\* list[i] = x on the list object ref of the store (i is 1-based here)
SetItem(store, ref, i, x) == [store EXCEPT ![ref][i] = x]

(***************************************************************************)
(* EA.crossover(a, b) with a and b references of list objects: ab and ba   *)
(* are further names of the SAME objects.  draws[i] is "p < crossover_p".  *)
(* The result is the store after the loop; the function returns (a, b).    *)
(***************************************************************************)
RECURSIVE crossover_from(_, _, _, _, _)
crossover_from(store, a, b, draws, i) ==
    IF i > Len(store[a]) THEN store
    ELSE LET ab == a
             ba == b
             s1 == IF draws[i] THEN SetItem(store, ab, i, store[a][i])
                   ELSE SetItem(store, ab, i, store[b][i])
             s2 == IF draws[i] THEN SetItem(s1, ba, i, s1[b][i])
                   ELSE SetItem(s1, ba, i, s1[a][i])
         IN crossover_from(s2, a, b, draws, i + 1)

crossover(store, a, b, draws) == crossover_from(store, a, b, draws, 1)

\* EA.mutation: m = 0 when t >= mutation_rate, else the flipped index (1-based)
mutation(store, chromosome, m) ==
    IF m = 0 THEN store
    ELSE SetItem(store, chromosome, m, IF store[chromosome][m] = 0 THEN 1 ELSE 0)

\* one turn of create_generation's while loop
CreatePair ==
    /\ ea_pc = "create"
    /\ Len(new_generation) < generation_size
    /\ \E i \in 1..Len(for_reproduction), j \in 1..Len(for_reproduction),
          draws \in [1..num_literals -> BOOLEAN],
          m1 \in 0..num_literals, m2 \in 0..num_literals :
          /\ i # j
          /\ LET child1 == for_reproduction[i].solution
                 child2 == for_reproduction[j].solution
                 s1 == crossover(solutions, child1, child2, draws)
                 s2 == mutation(s1, child1, m1)
                 s3 == mutation(s2, child2, m2)
                 f1 == ea_fitness(s3[child1], clauses)
                 t1 == goal_function(f1, child1, top_chromosome)
                 f2 == ea_fitness(s3[child2], clauses)
                 t2 == goal_function(f2, child2, t1)
             IN /\ solutions' = s3
                /\ new_generation' = new_generation \o
                       << Chromosome(child1, f1), Chromosome(child2, f2) >>
                /\ top_chromosome' = t2
    /\ UNCHANGED << chromosomes, for_reproduction, current_iteration, ea_pc,
                    ea_result, cfg_vars, pso_vars, op_vars >>

\* create_generation returns; the rest of the turn of run's loop
EndGeneration ==
    /\ ea_pc = "create"
    /\ Len(new_generation) >= generation_size
    /\ chromosomes' = new_generation
    /\ current_iteration' = current_iteration + 1
    /\ ea_pc' = "loop"
    /\ UNCHANGED << solutions, for_reproduction, new_generation, top_chromosome,
                    ea_result, cfg_vars, pso_vars, op_vars >>

\* max(chromosomes, key = fitness): the first chromosome of maximal fitness
RECURSIVE PyMax(_)
PyMax(s) ==
    IF Len(s) = 1 THEN s[1]
    ELSE LET r == PyMax(Tail(s))
         IN IF r.fitness > Head(s).fitness THEN r ELSE Head(s)

\* the end of run: "if self.top_chromosome" is the truth value of a list
Return ==
    /\ ea_pc = "loop"
    /\ stop_condition
    /\ ea_result' =
          IF top_chromosome # None /\ Len(solutions[top_chromosome]) > 0
          THEN [kind |-> "Chromosome", solution |-> top_chromosome,
                fitness |-> ea_fitness(solutions[top_chromosome], clauses)]
          ELSE [kind |-> "None", solution |-> None, fitness |-> 0]
    /\ top_chromosome' =
          IF top_chromosome # None /\ Len(solutions[top_chromosome]) > 0
          THEN goal_function(ea_fitness(solutions[top_chromosome], clauses),
                             top_chromosome, top_chromosome)
          ELSE top_chromosome
    /\ ea_pc' = "done"
    /\ UNCHANGED << solutions, chromosomes, for_reproduction, new_generation,
                    current_iteration, cfg_vars, pso_vars, op_vars >>

EAStart ==
    /\ solutions = << >>
    /\ chromosomes = << >>
    /\ for_reproduction = << >>
    /\ new_generation = << >>
    /\ current_iteration = 0
    /\ top_chromosome = None
    /\ ea_pc = "start"
    /\ ea_result = [kind |-> "pending", solution |-> None, fitness |-> 0]

\* no EA is constructed
EAIdle ==
    /\ solutions = << >>
    /\ chromosomes = << >>
    /\ for_reproduction = << >>
    /\ new_generation = << >>
    /\ current_iteration = 0
    /\ top_chromosome = None
    /\ ea_pc = "idle"
    /\ ea_result = [kind |-> "pending", solution |-> None, fitness |-> 0]

EANext ==
    \/ initial_population
    \/ Select
    \/ CreatePair
    \/ EndGeneration
    \/ Return

(***************************************************************************)
(* PSO                                                                     *)
(***************************************************************************)
\* PSO.fitness of the list object ref
fitness_of(store, ref) == pso_fitness(store[ref], clauses, weights)

\* Particle.__init__ and PSO.__init__: the state when run_WPSOSAT's loop starts
PSOStart ==
    /\ \E pos \in [1..num_particles -> Assignments(num_literals)] :
          /\ position = pos
          /\ global_best_fitness =
                pso_fitness(pos[1], clauses, [c \in 1..Len(clauses) |-> 1])
    /\ best = [k \in 1..num_particles |-> k]
    /\ velocity \in [1..num_particles ->
                        [1..num_literals -> {2 * 10 * r - 100 : r \in RandomTenths}]]
    /\ p_fitness = [k \in 1..num_particles |-> NegInf]
    /\ weights = [c \in 1..Len(clauses) |-> 1]
    /\ global_best = 1
    /\ iteration = 0
    /\ num_satisfied_clauses = 0
    /\ particle = 1
    /\ pso_pc = "check"

\* no PSO is constructed
PSOIdle ==
    /\ position = << >>
    /\ best = << >>
    /\ velocity = << >>
    /\ p_fitness = << >>
    /\ weights = << >>
    /\ global_best = None
    /\ global_best_fitness = 0
    /\ iteration = 0
    /\ num_satisfied_clauses = 0
    /\ particle = 1
    /\ pso_pc = "idle"

\* PSO.calc_fitness_and_global_best from particle k on; st is the triple
\* << particle fitnesses, global_best_fitness, global_best >>
RECURSIVE calc_from(_, _)
calc_from(k, st) ==
    IF k > num_particles THEN st
    ELSE LET f == fitness_of(position, k)
         IN calc_from(k + 1,
                      << [st[1] EXCEPT ![k] = f],
                         IF f > st[2] THEN f ELSE st[2],
                         IF f > st[2] THEN k ELSE st[3] >>)

calc_fitness_and_global_best ==
    calc_from(1, << p_fitness, global_best_fitness, global_best >>)

\* the loop test of run_WPSOSAT
loop_condition ==
    ~(num_satisfied_clauses = num_clauses \/ iteration >= max_iteration)

\* a turn of the while loop starts: up to the for loop
LoopEnter ==
    /\ pso_pc = "check"
    /\ loop_condition
    /\ iteration' = iteration + 1
    /\ LET st == calc_fitness_and_global_best
       IN /\ p_fitness' = st[1]
          /\ global_best_fitness' = st[2]
          /\ global_best' = st[3]
    /\ particle' = 1
    /\ pso_pc' = "velocity"
    /\ UNCHANGED << position, best, velocity, weights, num_satisfied_clauses,
                    cfg_vars, ea_vars, op_vars >>

\* Particle.update_velocity; r1 and r2 in tenths, the velocity in hundredths
update_velocity(k, r1, r2) ==
    [i \in 1..num_literals |->
        w * velocity[k][i]
        + c1 * r1 * (position[best[k]][i] - position[k][i])
        + c2 * r2 * (position[global_best][i] - position[k][i])]

UpdateVelocities ==
    /\ pso_pc = "velocity"
    /\ \E r1 \in RandomTenths, r2 \in RandomTenths :
          velocity' = [velocity EXCEPT ![particle] = update_velocity(particle, r1, r2)]
    /\ pso_pc' = "search"
    /\ UNCHANGED << position, best, p_fitness, weights, global_best,
                    global_best_fitness, iteration, num_satisfied_clauses,
                    particle, cfg_vars, ea_vars, op_vars >>

(***************************************************************************)
(* PSO.local_search on the list object ref.  sweep_from is the for loop    *)
(* from index i on, on the triple << store, nbrflip, improvement >>.       *)
(***************************************************************************)
\* the for loop of local_search with the undo of a losing flip left out
RECURSIVE sweep_from_keep_all(_, _, _)
sweep_from_keep_all(ref, i, st) ==
    IF i > num_literals THEN st
    ELSE LET fit_before == pso_fitness(st[1][ref], clauses, weights)
             flipped == [st[1] EXCEPT ![ref][i] = 1 - st[1][ref][i]]
             fit_after == pso_fitness(flipped[ref], clauses, weights)
             gain == fit_after - fit_before
         IN sweep_from_keep_all(ref, i + 1,
                << flipped, st[2] + 1, IF gain >= 0 THEN st[3] + gain ELSE st[3] >>)

RECURSIVE sweep_from(_, _, _)
sweep_from(ref, i, st) ==
    IF i > num_literals THEN st
    ELSE LET fit_before == fitness_of(st[1], ref)
             flipped == SetItem(st[1], ref, i, 1 - st[1][ref][i])
             fit_after == fitness_of(flipped, ref)
             gain == fit_after - fit_before
         IN sweep_from(ref, i + 1,
                IF gain >= 0
                THEN << flipped, st[2] + 1, st[3] + gain >>
                ELSE << SetItem(flipped, ref, i, 1 - flipped[ref][i]),
                        st[2] + 1, st[3] >>)

RECURSIVE search_while(_, _, _)
search_while(ref, flips, st) ==
    IF st[3] > 0 /\ st[2] < flips
    THEN search_while(ref, flips, sweep_from(ref, 1, << st[1], st[2], 0 >>))
    ELSE st

\* the store after local_search(particle, flips)
local_search(store, ref, flips) == search_while(ref, flips, << store, 0, 1 >>)[1]

LocalSearch ==
    /\ pso_pc = "search"
    /\ position' = local_search(position, particle, max_flip)
    /\ pso_pc' = "personal"
    /\ UNCHANGED << best, velocity, p_fitness, weights, global_best,
                    global_best_fitness, iteration, num_satisfied_clauses,
                    particle, cfg_vars, ea_vars, op_vars >>

UpdatePersonalBest ==
    /\ pso_pc = "personal"
    /\ LET p_best_fit == fitness_of(position, best[particle])
       IN IF p_fitness[particle] > p_best_fit
          THEN /\ p_fitness' = [p_fitness EXCEPT ![particle] = p_best_fit]
               /\ best' = [best EXCEPT ![particle] = particle]
          ELSE UNCHANGED << p_fitness, best >>
    /\ pso_pc' = "global"
    /\ UNCHANGED << position, velocity, weights, global_best,
                    global_best_fitness, iteration, num_satisfied_clauses,
                    particle, cfg_vars, ea_vars, op_vars >>

\* PSO.update_global_best, and the for loop goes on or ends
UpdateGlobalBest ==
    /\ pso_pc = "global"
    /\ LET curr_fitness == fitness_of(position, best[particle])
       IN IF curr_fitness > global_best_fitness
          THEN /\ global_best_fitness' = curr_fitness
               /\ global_best' = best[particle]
          ELSE UNCHANGED << global_best_fitness, global_best >>
    /\ IF particle < num_particles
       THEN particle' = particle + 1 /\ pso_pc' = "velocity"
       ELSE particle' = particle /\ pso_pc' = "weights"
    /\ UNCHANGED << position, best, velocity, p_fitness, weights, iteration,
                    num_satisfied_clauses, cfg_vars, ea_vars, op_vars >>

\* update_clauses_weight adding 1 to every weight
update_clauses_weight_all ==
    [c \in 1..Len(clauses) |-> weights[c] + 1]

\* PSO.update_clauses_weight: the weights after the call
update_clauses_weight ==
    [c \in 1..Len(clauses) |->
        weights[c] + 1 - is_clause_satisfied(position[global_best], clauses[c])]

\* the end of a turn of the while loop
UpdateClausesWeight ==
    /\ pso_pc = "weights"
    /\ weights' = update_clauses_weight
    /\ num_satisfied_clauses' =
          num_satisfied_clauses_of(position[global_best], clauses)
    /\ pso_pc' = "check"
    /\ UNCHANGED << position, best, velocity, p_fitness, global_best,
                    global_best_fitness, iteration, particle,
                    cfg_vars, ea_vars, op_vars >>

LoopExit ==
    /\ pso_pc = "check"
    /\ ~loop_condition
    /\ pso_pc' = "done"
    /\ UNCHANGED << position, best, velocity, p_fitness, weights, global_best,
                    global_best_fitness, iteration, num_satisfied_clauses,
                    particle, cfg_vars, ea_vars, op_vars >>

PSONext ==
    \/ LoopEnter
    \/ UpdateVelocities
    \/ LocalSearch
    \/ UpdatePersonalBest
    \/ UpdateGlobalBest
    \/ UpdateClausesWeight
    \/ LoopExit

(***************************************************************************)
(* The runs explored: a problem with a population (EA) or a swarm (PSO)    *)
(* whose list objects hold at most MaxStoreBits bits together.             *)
(***************************************************************************)
EAConfigs ==
    { c \in [problem : Problems, size : 2..MaxGenerationSize] :
        c.problem.num_literals * c.size <= MaxStoreBits }

\* the swarm is also run on a second problem no assignment satisfies
PSOProblems ==
    Problems \cup { [clauses |-> << <<1>>, <<-1>> >>, num_literals |-> 1] }

PSOConfigs ==
    { c \in [problem : PSOProblems, size : 1..MaxParticles, flips : 0..MaxFlip] :
        c.problem.num_literals * c.size <= MaxStoreBits }

OpsIdle ==
    /\ op_pc = "idle"
    /\ op_clauses = << >>
    /\ op_weights = << >>
    /\ op_lists = << >>
    /\ op_draws = << >>
    /\ op_before = << >>
    /\ op_result = 0

(***************************************************************************)
(* Single operations on inputs of any shape: fitness evaluation on clauses *)
(* that need not be well formed, and crossover on two list objects.        *)
(***************************************************************************)
Literals == (0 - MaxLit)..MaxLit

AnyClauses == UNION { [1..n -> Literals] : n \in 1..2 }

AnyClauseSets == { << c >> : c \in AnyClauses } \cup { << <<1>>, c >> : c \in AnyClauses }

EvalStart ==
    /\ op_pc = "eval"
    /\ op_clauses \in AnyClauseSets
    /\ op_weights \in [1..Len(op_clauses) -> 1..2]
    /\ \E n \in 1..2 : op_lists \in [1..1 -> Assignments(n)]
    /\ op_draws = << >>
    /\ op_before = op_lists
    /\ op_result = 0

CrossStart ==
    /\ op_pc = "cross"
    /\ op_clauses = << >>
    /\ op_weights = << >>
    /\ \E n \in 1..2 :
          /\ op_lists \in [1..2 -> Assignments(n)]
          /\ op_draws \in [1..n -> BOOLEAN]
    /\ op_before = op_lists
    /\ op_result = 0

\* EA.fitness(op_lists[1])
EvaluateEA ==
    /\ op_pc = "eval"
    /\ op_result' = ea_fitness(op_lists[1], op_clauses)
    /\ op_pc' = "ea_fitness"
    /\ UNCHANGED << op_clauses, op_weights, op_lists, op_draws, op_before,
                    cfg_vars, ea_vars, pso_vars >>

\* PSO.fitness(op_lists[1])
EvaluatePSO ==
    /\ op_pc = "eval"
    /\ op_result' = pso_fitness(op_lists[1], op_clauses, op_weights)
    /\ op_pc' = "pso_fitness"
    /\ UNCHANGED << op_clauses, op_weights, op_lists, op_draws, op_before,
                    cfg_vars, ea_vars, pso_vars >>

\* EA.crossover(a, b) with a, b the two list objects; it returns (a, b)
Crossover ==
    /\ op_pc = "cross"
    /\ op_lists' = crossover(op_lists, 1, 2, op_draws)
    /\ op_pc' = "crossed"
    /\ UNCHANGED << op_clauses, op_weights, op_draws, op_before, op_result,
                    cfg_vars, ea_vars, pso_vars >>

OpsNext ==
    \/ EvaluateEA
    \/ EvaluatePSO
    \/ Crossover

OpsInit ==
    /\ clauses = << >>
    /\ num_literals = 0
    /\ generation_size = 0
    /\ num_particles = 0
    /\ max_flip = 0
    /\ EAIdle
    /\ PSOIdle
    /\ (EvalStart \/ CrossStart)

EAInit ==
    /\ \E c \in EAConfigs :
          /\ clauses = c.problem.clauses
          /\ num_literals = c.problem.num_literals
          /\ generation_size = c.size
    /\ num_particles = 0
    /\ max_flip = 0
    /\ EAStart
    /\ PSOIdle
    /\ OpsIdle

PSOInit ==
    /\ \E c \in PSOConfigs :
          /\ clauses = c.problem.clauses
          /\ num_literals = c.problem.num_literals
          /\ num_particles = c.size
          /\ max_flip = c.flips
    /\ generation_size = 0
    /\ PSOStart
    /\ EAIdle
    /\ OpsIdle

vars == << cfg_vars, ea_vars, pso_vars, op_vars >>

SpecEA == EAInit /\ [][EANext]_vars

SpecPSO == PSOInit /\ [][PSONext]_vars

SpecOps == OpsInit /\ [][OpsNext]_vars

\* either engine on a problem, or a single operation
Init == EAInit \/ PSOInit \/ OpsInit

Next == EANext \/ PSONext \/ OpsNext

Spec == Init /\ [][Next]_vars

(***************************************************************************)
(* What the properties speak of: the meaning of clauses, stated on its own *)
(* and not through the engines' evaluators.                                *)
(***************************************************************************)
LitTrue(a, l) == IF l > 0 THEN a[l] = 1 ELSE a[0 - l] = 0

ClauseTrue(a, clause) == \E n \in 1..Len(clause) : LitTrue(a, clause[n])

NumTrue(a, cls) == Cardinality({ c \in 1..Len(cls) : ClauseTrue(a, cls[c]) })

RECURSIVE WeightTrue(_, _, _)
WeightTrue(a, cls, ws) ==
    IF cls = << >> THEN 0
    ELSE (IF ClauseTrue(a, Head(cls)) THEN Head(ws) ELSE 0)
         + WeightTrue(a, Tail(cls), Tail(ws))

\* no assignment satisfies every clause
Unsatisfiable ==
    \A a \in Assignments(num_literals) : NumTrue(a, clauses) < num_clauses

\* some literal is 0 or larger in magnitude than the n variables
IllFormed(cls, n) ==
    \E c \in 1..Len(cls) : \E k \in 1..Len(cls[c]) :
        cls[c][k] = 0 \/ cls[c][k] > n \/ 0 - cls[c][k] > n

\* every Chromosome run, selection and create_generation hold at the moment
LiveChromosomes ==
    { chromosomes[k] : k \in 1..Len(chromosomes) }
    \cup { for_reproduction[k] : k \in 1..Len(for_reproduction) }
    \cup { new_generation[k] : k \in 1..Len(new_generation) }

(***************************************************************************)
(* C1: once a fitness evaluation of EA.run has seen an assignment that     *)
(* satisfies every clause, run returns a Chromosome whose solution         *)
(* satisfies every clause and whose fitness is num_clauses.                *)
(***************************************************************************)
C1_OptimalIsReturned ==
    (ea_pc = "done" /\ top_chromosome # None) =>
        /\ ea_result.kind = "Chromosome"
        /\ ea_result.fitness = num_clauses
        /\ NumTrue(solutions[ea_result.solution], clauses) = num_clauses

(***************************************************************************)
(* C2: when the iteration budget is exhausted and no assignment satisfying *)
(* every clause was seen, run returns the first individual of highest      *)
(* fitness of the final population.                                        *)
(***************************************************************************)
C2_BestOfFinalPopulationIsReturned ==
    (ea_pc = "done" /\ top_chromosome = None) =>
        /\ ea_result.kind = "Chromosome"
        /\ ea_result.solution = PyMax(chromosomes).solution
        /\ ea_result.fitness = PyMax(chromosomes).fitness

(***************************************************************************)
(* C3: on clauses with a literal 0 or a literal larger in magnitude than   *)
(* the literal count, fitness evaluation (EA and PSO) ends in an error for *)
(* every assignment and never returns a fitness value.                     *)
(***************************************************************************)
C3_IllFormedLiteralIsAnError ==
    (op_pc \in {"ea_fitness", "pso_fitness"}
        /\ IllFormed(op_clauses, Len(op_lists[1]))) => op_result = IndexError

(***************************************************************************)
(* C4: on clauses no assignment satisfies completely neither engine        *)
(* declares the formula satisfied: EA's top_chromosome stays unset and its *)
(* loop stops on the iteration budget only; in run_WPSOSAT the number of   *)
(* clauses the global best satisfies is below num_clauses (3 for the       *)
(* example of four clauses over two variables).                            *)
(***************************************************************************)
C4_UnsatisfiableNeverDeclaredSatisfied ==
    (Unsatisfiable /\ op_pc = "idle") =>
        /\ ea_pc # "idle" =>
              /\ top_chromosome = None
              /\ ea_pc = "done" => current_iteration > max_iterations
        /\ pso_pc # "idle" =>
              /\ num_satisfied_clauses_of(position[global_best], clauses) < num_clauses
              /\ num_satisfied_clauses # num_clauses
              /\ pso_pc = "done" => iteration >= max_iteration
              /\ clauses = UnsatExample =>
                    num_satisfied_clauses_of(position[global_best], clauses) = 3

C4_Witness ==
    /\ clauses = UnsatExample
    /\ pso_pc = "done"
    /\ iteration = max_iteration
    /\ num_satisfied_clauses = 3
    /\ \E k \in 1..num_particles : position[k] # position[global_best]

(***************************************************************************)
(* C5: every clause weight starts at 1 and never decreases; a call of      *)
(* update_clauses_weight adds 1 to the weight of every clause the global   *)
(* best does not satisfy and leaves the other weights as they are.         *)
(***************************************************************************)
C5_WeightsStep ==
    /\ \A c \in 1..Len(weights) : weights'[c] >= weights[c]
    /\ pso_pc = "weights" =>
          \A c \in 1..Len(weights) :
              weights'[c] = IF ClauseTrue(position[global_best], clauses[c])
                            THEN weights[c] ELSE weights[c] + 1
    /\ pso_pc # "weights" => weights' = weights

C5_ClauseWeights ==
    /\ [](iteration = 0 => \A c \in 1..Len(weights) : weights[c] = 1)
    /\ [][C5_WeightsStep]_vars

C5_Witness ==
    /\ pso_pc = "check"
    /\ iteration = 2
    /\ \E c \in 1..Len(weights), d \in 1..Len(weights) :
          /\ weights[c] = 3
          /\ weights[d] = 1

(***************************************************************************)
(* C6: the weighted fitness of a particle's position when local_search     *)
(* returns is at least its weighted fitness when local_search was called.  *)
(***************************************************************************)
C6_LocalSearchStep ==
    (pso_pc = "search" /\ pso_pc' = "personal") =>
        WeightTrue(position'[particle], clauses, weights)
            >= WeightTrue(position[particle], clauses, weights)

C6_LocalSearchNeverLowersFitness == [][C6_LocalSearchStep]_vars

C6_Witness ==
    /\ pso_pc = "personal"
    /\ particle = 2
    /\ iteration = 2
    /\ WeightTrue(position[particle], clauses, weights) > p_fitness[particle]

(***************************************************************************)
(* C7: a turn of run_WPSOSAT's loop starts only when the global best       *)
(* leaves a clause unsatisfied and the iteration count is below            *)
(* max_iteration; the loop ends after at most max_iteration turns.         *)
(***************************************************************************)
C7_LoopStep ==
    (pso_pc = "check" /\ pso_pc' = "velocity") =>
        /\ NumTrue(position[global_best], clauses) < num_clauses
        /\ iteration < max_iteration

C7_LoopRunsOnlyWhileUnsatisfied ==
    /\ [](pso_pc # "idle" => iteration <= max_iteration)
    /\ [][C7_LoopStep]_vars

(***************************************************************************)
(* C8: the global-best assignment changes only in a global-best update     *)
(* step (calc_fitness_and_global_best, update_global_best), and only for a *)
(* candidate of fitness above global_best_fitness; update_velocity,        *)
(* local_search, update_personal_best and update_clauses_weight leave it   *)
(* as it is.                                                               *)
(***************************************************************************)
C8_GlobalBestStep ==
    (pso_pc # "idle" /\ position'[global_best'] # position[global_best]) =>
        /\ pso_pc \in {"check", "global"}
        /\ global_best_fitness' > global_best_fitness
        /\ global_best_fitness' = WeightTrue(position'[global_best'], clauses, weights)

C8_GlobalBestChangesOnlyByUpdate == [][C8_GlobalBestStep]_vars

(***************************************************************************)
(* C9: every Chromosome of the population, of the reproduction pool and of *)
(* the generation under construction has the fitness of its solution, and  *)
(* no step changes the solution of a Chromosome that exists already.       *)
(***************************************************************************)
C9_FitnessOfSolution ==
    \A c \in LiveChromosomes : c.fitness = NumTrue(solutions[c.solution], clauses)

C9_SolutionStep ==
    \A c \in LiveChromosomes : solutions'[c.solution] = solutions[c.solution]

C9_ChromosomesKeepTheirSolution ==
    /\ []C9_FitnessOfSolution
    /\ [][C9_SolutionStep]_vars

(***************************************************************************)
(* C10: crossover returns two complementary children: at a position whose  *)
(* draw is below crossover_p child A has a's original bit and child B has  *)
(* b's, at any other position child A has b's original bit and child B has *)
(* a's.                                                                    *)
(***************************************************************************)
C10_ComplementaryChildren ==
    op_pc = "crossed" =>
        \A i \in 1..Len(op_draws) :
            IF op_draws[i]
            THEN op_lists[1][i] = op_before[1][i] /\ op_lists[2][i] = op_before[2][i]
            ELSE op_lists[1][i] = op_before[2][i] /\ op_lists[2][i] = op_before[1][i]

=============================================================================
